---- MODULE Spec2Model ----
(***************************************************************************)
(* Event registration and attendance/cancellation workflow of ellarises.   *)
(*                                                                         *)
(* The store holds two tables, EventOccurrence and Registration.  The two  *)
(* handlers POST /register and POST /registration/update are asynchronous: *)
(* each `await knex(...)` is one round trip to the store, and the code     *)
(* between two awaits runs without interruption.  A handler is therefore   *)
(* modelled as one action per round trip; Spec interleaves the round trips *)
(* of several requests, SpecSeq runs the requests one after another.       *)
(*                                                                         *)
(* Nullable or possibly-undefined values are sequences of length 0 or 1:   *)
(* << >> is null/undefined, <<v>> is the value v.  A body field that is    *)
(* absent or empty (falsy in JavaScript) is 0.  The tables are functions   *)
(* whose domain is the set of keys that have a row; the composite primary  *)
(* keys are (Event_ID, EventDateTimeStart) and                             *)
(* (Participant_ID, Event_ID, EventDateTimeStart).  EventNumRegistered is  *)
(* taken to be an integer column that starts at 0.                         *)
(*                                                                         *)
(* Handlers with a single round trip (the delete routes, the session       *)
(* routes, /submit-milestone and the draft's occurrence administration in  *)
(* src/unnamed/part_000) are one action each.  index.js and part_000 are   *)
(* dumps of several programs; the model follows the Knex version of each.  *)
(***************************************************************************)
EXTENDS Integers, FiniteSets, Sequences, TLC

\* ---- bounds ----
NumParticipants == 2
NumEvents == 1
NumStarts == 2
MaxCapacity == 2
MaxNow == 2
NumSlots == 2
NumSessions == 2
MaxRequests == 4
MaxOverlapping == 3
NumTitles == 2

Participants == 1..NumParticipants
EventIds == 1..NumEvents
Starts == 1..NumStarts
Slots == 1..NumSlots
Sessions == 1..NumSessions
Titles == 1..NumTitles
OccKeys == EventIds \X Starts
RegKeys == Participants \X EventIds \X Starts
\* a deadline column is null or a time; every deadline of the model passes at MaxNow
Deadlines == {<< >>} \cup {<<t>> : t \in 1..(MaxNow - 1)}
ValidActions == {"attended", "absent", "cancel"}
Actions == ValidActions \cup {"bogus"}

VARIABLES
    EventOccurrence,  \* table: OccKey -> [EventCapacity, EventRegistrationDeadline, EventNumRegistered]
    Registration,     \* table: RegKey -> [RegistrationStatus, RegistrationAttendedFlag]
    now,              \* the server clock read by `new Date()`
    inflight,         \* per slot: the request being handled and the handler's locals
    last,             \* the response being sent, with its request; None when none is
    started,          \* number of requests that have reached the store
    session,          \* per browser session: req.session.user, << >> when not set
    authed,           \* history: the sessions with a successful login and no logout since
    Milestones,       \* table: the set of inserted milestone rows
    user              \* the draft's implicit global `user`: << >> while never assigned

vars == <<EventOccurrence, Registration, now, inflight, last, started,
          session, authed, Milestones, user>>

\* what the registration handlers never touch
authVars == <<session, authed, Milestones, user>>

\* ---- requests and responses ----
Bodies == [Participant_ID : Participants \cup {0},
           Event_ID : EventIds \cup {0},
           EventDateTimeStart : Starts \cup {0}]

CompleteBodies == [Participant_ID : Participants, Event_ID : EventIds,
                   EventDateTimeStart : Starts]

NoStore == [occ |-> << >>, regs |-> << >>]
Store == [occ |-> EventOccurrence, regs |-> Registration]

NoBody == [Participant_ID |-> 0, Event_ID |-> 0, EventDateTimeStart |-> 0]
Idle == [pc |-> "idle", route |-> "none", body |-> NoBody, action |-> "none",
         event |-> << >>, at |-> << >>, existingReg |-> << >>, pre |-> NoStore]

NoResponse == [status |-> 0, text |-> "none"]
None == [route |-> "none", body |-> NoBody, action |-> "none", resp |-> NoResponse,
         at |-> << >>, pre |-> NoStore]

Resp(s, t) == [status |-> s, text |-> t]
MissingFieldsResp == Resp(400, "Missing required fields")
NotFoundResp == Resp(404, "Event occurrence not found")
DeadlineResp == Resp(400, "Registration deadline has passed")
FullResp == Resp(400, "Event is full")
RegisteredResp == Resp(200, "Registration successful")
RegisterErrorResp == Resp(500, "Server error")
InvalidActionResp == Resp(400, "Invalid action")
RedirectBackResp == Resp(302, "back")
UpdateErrorResp == Resp(500, "Error updating registration")

OccKey(body) == <<body.Event_ID, body.EventDateTimeStart>>
RegKey(body) == <<body.Participant_ID, body.Event_ID, body.EventDateTimeStart>>

\* ---- pure parts of the handlers ----
\* variant: the participant is not looked at
MissingFieldsNoParticipant(body) ==
    body.Event_ID = 0 \/ body.EventDateTimeStart = 0

\* !Participant_ID || !Event_ID || !EventDateTimeStart
MissingFields(body) ==
    body.Participant_ID = 0 \/ body.Event_ID = 0 \/ body.EventDateTimeStart = 0

\* new Date(event.EventRegistrationDeadline || 0): a null column becomes the epoch
RegistrationDeadline(event) ==
    IF event.EventRegistrationDeadline = << >> THEN 0
    ELSE event.EventRegistrationDeadline[1]

\* registrationDeadline && now > registrationDeadline: a Date object is always truthy
DeadlinePassed(event, t) == t > RegistrationDeadline(event)

\* variant: the comparison written with > lets one registration past the capacity
IsFullStrict(event) == event.EventNumRegistered > event.EventCapacity

\* event.EventNumRegistered >= event.EventCapacity
IsFull(event) == event.EventNumRegistered >= event.EventCapacity

\* variant: the branches of 'attended' and 'absent' write each other's status
UpdateFieldsSwapped(action) ==
    IF action = "attended"
    THEN <<[RegistrationStatus |-> "no-show", RegistrationAttendedFlag |-> "T"]>>
    ELSE IF action = "absent"
    THEN <<[RegistrationStatus |-> "attended", RegistrationAttendedFlag |-> "F"]>>
    ELSE IF action = "cancel"
    THEN <<[RegistrationStatus |-> "cancelled", RegistrationAttendedFlag |-> "F"]>>
    ELSE << >>

\* variant: the 'absent' branch sets the attended flag
UpdateFieldsAbsentFlagged(action) ==
    IF action = "attended"
    THEN <<[RegistrationStatus |-> "attended", RegistrationAttendedFlag |-> "T"]>>
    ELSE IF action = "absent"
    THEN <<[RegistrationStatus |-> "no-show", RegistrationAttendedFlag |-> "T"]>>
    ELSE IF action = "cancel"
    THEN <<[RegistrationStatus |-> "cancelled", RegistrationAttendedFlag |-> "F"]>>
    ELSE << >>

\* variant: the chain ends in the cancel columns instead of null
UpdateFieldsDefaultCancel(action) ==
    IF action = "attended"
    THEN <<[RegistrationStatus |-> "attended", RegistrationAttendedFlag |-> "T"]>>
    ELSE IF action = "absent"
    THEN <<[RegistrationStatus |-> "no-show", RegistrationAttendedFlag |-> "F"]>>
    ELSE <<[RegistrationStatus |-> "cancelled", RegistrationAttendedFlag |-> "F"]>>

\* the conditional chain that maps the action to the columns to write
UpdateFields(action) ==
    IF action = "attended"
    THEN <<[RegistrationStatus |-> "attended", RegistrationAttendedFlag |-> "T"]>>
    ELSE IF action = "absent"
    THEN <<[RegistrationStatus |-> "no-show", RegistrationAttendedFlag |-> "F"]>>
    ELSE IF action = "cancel"
    THEN <<[RegistrationStatus |-> "cancelled", RegistrationAttendedFlag |-> "F"]>>
    ELSE << >>

\* variant: the prior status is not looked at, every cancel decrements
NeedsDecrementAnyCancel(action, existingReg) ==
    /\ action = "cancel"
    /\ existingReg # << >>

\* action === 'cancel' && existingReg && existingReg.RegistrationStatus !== 'cancelled'
NeedsDecrement(action, existingReg) ==
    /\ action = "cancel"
    /\ existingReg # << >>
    /\ existingReg[1].RegistrationStatus # "cancelled"

\* variant: the decrement without Math.max
NewCountNoFloor(event) == event.EventNumRegistered - 1

\* Math.max(0, (event.EventNumRegistered || 0) - 1)
NewCount(event) ==
    IF event.EventNumRegistered - 1 > 0 THEN event.EventNumRegistered - 1 ELSE 0

\* variant: the capacity check placed before the deadline check
RegisterChecksCapacityFirst(event, t) ==
    IF event = << >> THEN NotFoundResp
    ELSE IF IsFull(event[1]) THEN FullResp
    ELSE IF DeadlinePassed(event[1], t) THEN DeadlineResp
    ELSE NoResponse

\* variant: a lookup that finds no row is not answered 404, the handler goes on
RegisterChecksNoLookupGuard(event, t) ==
    IF event = << >> THEN NoResponse
    ELSE IF DeadlinePassed(event[1], t) THEN DeadlineResp
    ELSE IF IsFull(event[1]) THEN FullResp
    ELSE NoResponse

\* the three checks that follow the occurrence lookup, in the order of the code;
\* NoResponse when all pass
RegisterChecks(event, t) ==
    IF event = << >> THEN NotFoundResp
    ELSE IF DeadlinePassed(event[1], t) THEN DeadlineResp
    ELSE IF IsFull(event[1]) THEN FullResp
    ELSE NoResponse

\* ---- store operations ----
\* knex(table).where(key).first()
First(table, key) == IF key \in DOMAIN table THEN <<table[key]>> ELSE << >>

\* knex('Registration').insert({..., RegistrationStatus: 'tbd', RegistrationAttendedFlag: 'F'})
InsertRegistration(regs, key) ==
    [k \in DOMAIN regs \cup {key} |->
        IF k = key THEN [RegistrationStatus |-> "tbd", RegistrationAttendedFlag |-> "F"]
        ELSE regs[k]]

\* variant: the increment without its where clause
IncrementEveryOccurrence(occ, key) ==
    [k \in DOMAIN occ |-> [occ[k] EXCEPT !.EventNumRegistered = @ + 1]]

\* knex('EventOccurrence').where(key).increment('EventNumRegistered', 1)
IncrementNumRegistered(occ, key) ==
    [k \in DOMAIN occ |->
        IF k = key THEN [occ[k] EXCEPT !.EventNumRegistered = @ + 1] ELSE occ[k]]

\* variant: the update without its where clause
UpdateEveryRegistration(regs, key, fields) ==
    [k \in DOMAIN regs |-> fields]

\* knex('Registration').where(key).update(updateFields)
UpdateRegistration(regs, key, fields) ==
    [k \in DOMAIN regs |-> IF k = key THEN fields ELSE regs[k]]

\* knex('EventOccurrence').where(key).update({ EventNumRegistered: newCount })
SetNumRegistered(occ, key, n) ==
    [k \in DOMAIN occ |->
        IF k = key THEN [occ[k] EXCEPT !.EventNumRegistered = n] ELSE occ[k]]

\* ---- bookkeeping of requests ----
Answer(r, resp) ==
    /\ last' = [route |-> inflight[r].route, body |-> inflight[r].body,
                action |-> inflight[r].action, resp |-> resp,
                at |-> inflight[r].at, pre |-> inflight[r].pre]
    /\ inflight' = [inflight EXCEPT ![r] = Idle]

AnswerAtOnce(route, body, action, resp) ==
    /\ last' = [route |-> route, body |-> body, action |-> action, resp |-> resp,
                at |-> << >>, pre |-> Store]
    /\ UNCHANGED <<inflight, started>>

Quiescent == \A r \in Slots : inflight[r].pc = "idle"

\* a new request takes the first free slot
FreeSlot(r) ==
    /\ last = None
    /\ inflight[r].pc = "idle"
    /\ \A q \in Slots : q < r => inflight[q].pc # "idle"

\* ---- POST /register ----
\* the handler up to its first await
RegisterReceive(r, body) ==
    /\ FreeSlot(r)
    /\ IF MissingFields(body)
       THEN AnswerAtOnce("register", body, "none", MissingFieldsResp)
       ELSE /\ started' = started + 1
            /\ inflight' = [inflight EXCEPT ![r] =
                    [Idle EXCEPT !.pc = "reg_event", !.route = "register",
                                 !.body = body, !.pre = Store]]
            /\ last' = None
    /\ UNCHANGED <<EventOccurrence, Registration, now>>
    /\ UNCHANGED authVars

\* the occurrence lookup returns; the deadline and capacity checks follow
RegisterEvent(r) ==
    /\ last = None
    /\ inflight[r].pc = "reg_event"
    /\ LET event == First(EventOccurrence, OccKey(inflight[r].body))
           resp == RegisterChecks(event, now)
           seen == [inflight[r] EXCEPT !.event = event,
                        !.at = IF event = << >> THEN << >> ELSE <<now>>]
       IN  IF resp # NoResponse
           THEN /\ last' = [route |-> seen.route, body |-> seen.body, action |-> seen.action,
                            resp |-> resp, at |-> seen.at, pre |-> seen.pre]
                /\ inflight' = [inflight EXCEPT ![r] = Idle]
           ELSE /\ inflight' = [inflight EXCEPT ![r] = [seen EXCEPT !.pc = "reg_insert"]]
                /\ last' = None
    /\ UNCHANGED <<EventOccurrence, Registration, now, started>>
    /\ UNCHANGED authVars

\* variant: the rejected insert is swallowed and the handler goes on to the increment
RegisterInsertSwallowsError(r) ==
    /\ last = None
    /\ inflight[r].pc = "reg_insert"
    /\ LET key == RegKey(inflight[r].body) IN
        /\ Registration' = IF key \in DOMAIN Registration THEN Registration
                           ELSE InsertRegistration(Registration, key)
        /\ inflight' = [inflight EXCEPT ![r].pc = "reg_increment"]
        /\ last' = None
    /\ UNCHANGED <<EventOccurrence, now, started>>
    /\ UNCHANGED authVars

\* the insert; a second row with the same composite key is refused by the store
RegisterInsert(r) ==
    /\ last = None
    /\ inflight[r].pc = "reg_insert"
    /\ LET key == RegKey(inflight[r].body) IN
        IF key \in DOMAIN Registration
        THEN /\ Answer(r, RegisterErrorResp)
             /\ UNCHANGED Registration
        ELSE /\ Registration' = InsertRegistration(Registration, key)
             /\ inflight' = [inflight EXCEPT ![r].pc = "reg_increment"]
             /\ last' = None
    /\ UNCHANGED <<EventOccurrence, now, started>>
    /\ UNCHANGED authVars

\* the increment, then the 200 response
RegisterIncrement(r) ==
    /\ last = None
    /\ inflight[r].pc = "reg_increment"
    /\ EventOccurrence' = IncrementNumRegistered(EventOccurrence, OccKey(inflight[r].body))
    /\ Answer(r, RegisteredResp)
    /\ UNCHANGED <<Registration, now, started>>
    /\ UNCHANGED authVars

\* ---- POST /registration/update ----
\* the handler up to its first await
UpdateReceive(r, body, action) ==
    /\ FreeSlot(r)
    /\ IF MissingFields(body)
       THEN AnswerAtOnce("update", body, action, MissingFieldsResp)
       ELSE IF UpdateFields(action) = << >>
       THEN AnswerAtOnce("update", body, action, InvalidActionResp)
       ELSE /\ started' = started + 1
            /\ inflight' = [inflight EXCEPT ![r] =
                    [Idle EXCEPT !.pc = "upd_existing", !.route = "update",
                                 !.body = body, !.action = action, !.pre = Store]]
            /\ last' = None
    /\ UNCHANGED <<EventOccurrence, Registration, now>>
    /\ UNCHANGED authVars

\* the lookup of the registration's prior state returns
UpdateExisting(r) ==
    /\ last = None
    /\ inflight[r].pc = "upd_existing"
    /\ inflight' = [inflight EXCEPT ![r].pc = "upd_update",
                        ![r].existingReg = First(Registration, RegKey(inflight[r].body))]
    /\ last' = None
    /\ UNCHANGED <<EventOccurrence, Registration, now, started>>
    /\ UNCHANGED authVars

\* the status update; only a first cancellation goes on to the count
UpdateStatus(r) ==
    /\ last = None
    /\ inflight[r].pc = "upd_update"
    /\ Registration' = UpdateRegistration(Registration, RegKey(inflight[r].body),
                                          UpdateFields(inflight[r].action)[1])
    /\ IF NeedsDecrement(inflight[r].action, inflight[r].existingReg)
       THEN /\ inflight' = [inflight EXCEPT ![r].pc = "upd_event"]
            /\ last' = None
       ELSE Answer(r, RedirectBackResp)
    /\ UNCHANGED <<EventOccurrence, now, started>>
    /\ UNCHANGED authVars

\* the occurrence lookup returns; event.EventNumRegistered throws when there is no row
UpdateEvent(r) ==
    /\ last = None
    /\ inflight[r].pc = "upd_event"
    /\ LET event == First(EventOccurrence, OccKey(inflight[r].body)) IN
        IF event = << >> THEN Answer(r, UpdateErrorResp)
        ELSE /\ inflight' = [inflight EXCEPT ![r].pc = "upd_count", ![r].event = event]
             /\ last' = None
    /\ UNCHANGED <<EventOccurrence, Registration, now, started>>
    /\ UNCHANGED authVars

\* the count is written back, then the redirect
UpdateCount(r) ==
    /\ last = None
    /\ inflight[r].pc = "upd_count"
    /\ EventOccurrence' = SetNumRegistered(EventOccurrence, OccKey(inflight[r].body),
                                           NewCount(inflight[r].event[1]))
    /\ Answer(r, RedirectBackResp)
    /\ UNCHANGED <<Registration, now, started>>
    /\ UNCHANGED authVars

\* ---- the administrative delete routes ----
\* knex(table).where(key).del()
DeleteRow(table, key) == [k \in DOMAIN table \ {key} |-> table[k]]

\* DELETE /event-occurrence/:eventId/:startTime: one round trip, then 200 or 404
\* according to the number of rows deleted; the Registration table is not looked at
DeleteOccurrence(key) ==
    /\ last = None
    /\ started' = started + 1
    /\ EventOccurrence' = DeleteRow(EventOccurrence, key)
    /\ last' = [route |-> "delete_occurrence",
                body |-> [Participant_ID |-> 0, Event_ID |-> key[1],
                          EventDateTimeStart |-> key[2]],
                action |-> "none",
                resp |-> IF key \in DOMAIN EventOccurrence
                         THEN Resp(200, "Event occurrence deleted successfully.")
                         ELSE Resp(404, "Event occurrence not found."),
                at |-> << >>, pre |-> Store]
    /\ UNCHANGED <<Registration, now, inflight>>
    /\ UNCHANGED authVars

\* DELETE /registration/:participantId/:eventId/:startTime: one round trip, then 200
\* or 404; the occurrence's EventNumRegistered is not looked at
DeleteRegistration(key) ==
    /\ last = None
    /\ started' = started + 1
    /\ Registration' = DeleteRow(Registration, key)
    /\ last' = [route |-> "delete_registration",
                body |-> [Participant_ID |-> key[1], Event_ID |-> key[2],
                          EventDateTimeStart |-> key[3]],
                action |-> "none",
                resp |-> IF key \in DOMAIN Registration
                         THEN Resp(200, "Registration deleted successfully.")
                         ELSE Resp(404, "Registration not found."),
                at |-> << >>, pre |-> Store]
    /\ UNCHANGED <<EventOccurrence, now, inflight>>
    /\ UNCHANGED authVars

\* ---- sessions: POST /login, GET /logout, requireLogin ----
\* the Participants table, which no modelled route writes: e-mail and password are
\* numbered like the participant, the last participant is the admin
Accounts ==
    {[Participant_ID |-> p, ParticipantEmail |-> p, ParticipantPassword |-> p,
      ParticipantRole |-> IF p = NumParticipants THEN "admin" ELSE "participant"] :
        p \in Participants}

\* submitted e-mails and passwords: those of the accounts and one that nobody has
Credentials == Participants \cup {0}

\* knex('Participants').where({ ParticipantEmail: email }).first()
FirstByEmail(email) ==
    IF \E a \in Accounts : a.ParticipantEmail = email
    THEN <<CHOOSE a \in Accounts : a.ParticipantEmail = email>>
    ELSE << >>

\* variant: the password is not compared
LoginUserNoPassword(participant, password) ==
    IF participant = << >> THEN << >>
    ELSE <<[id |-> participant[1].Participant_ID,
            email |-> participant[1].ParticipantEmail,
            role |-> participant[1].ParticipantRole]>>

\* the two rejections of the login handler, then the value stored in req.session.user;
\* << >> when the login is refused
LoginUser(participant, password) ==
    IF participant = << >> THEN << >>
    ELSE IF participant[1].ParticipantPassword # password THEN << >>
    ELSE <<[id |-> participant[1].Participant_ID,
            email |-> participant[1].ParticipantEmail,
            role |-> participant[1].ParticipantRole]>>

AuthState == [session |-> session, Milestones |-> Milestones]

\* the response of a request made on session sid
AnswerOn(sid, route, body, resp) ==
    last' = [route |-> route, body |-> body, action |-> "none", resp |-> resp,
             at |-> << >>, pre |-> Store, sid |-> sid, preAuth |-> AuthState]

\* POST /login
Login(sid, email, password) ==
    /\ last = None
    /\ LET su == LoginUser(FirstByEmail(email), password) IN
        IF su = << >>
        THEN /\ AnswerOn(sid, "login", [email |-> email, password |-> password],
                         Resp(200, "login: Invalid login"))
             /\ UNCHANGED <<session, authed>>
        ELSE /\ session' = [session EXCEPT ![sid] = su]
             /\ authed' = authed \cup {sid}
             /\ AnswerOn(sid, "login", [email |-> email, password |-> password],
                         Resp(302, "/"))
    /\ UNCHANGED <<EventOccurrence, Registration, now, inflight, started, Milestones, user>>

\* GET /logout: req.session.destroy, then the redirect
Logout(sid) ==
    /\ last = None
    /\ session' = [session EXCEPT ![sid] = << >>]
    /\ authed' = authed \ {sid}
    /\ AnswerOn(sid, "logout", NoBody, Resp(302, "/"))
    /\ UNCHANGED <<EventOccurrence, Registration, now, inflight, started, Milestones, user>>

\* variant: the middleware lets every request through
RequireLoginOpen(su) == TRUE

\* requireLogin: next() when req.session.user is set, else the redirect to /login
RequireLogin(su) == su # << >>

\* ---- POST /submit-milestone ----
MilestoneBodies == [Participant_ID : Participants \cup {0}, MilestoneTitle : Titles]

\* variant: the Participant_ID of the body is kept for every role
MilestoneOwnerFromBody(su, body) == body.Participant_ID

\* if (user.role === 'participant') Participant_ID = user.id
MilestoneOwner(su, body) ==
    IF su.role = "participant" THEN su.id ELSE body.Participant_ID

\* the guarded handler: the insert is refused by the store for a row without
\* Participant_ID or with the key (Participant_ID, MilestoneTitle) of an existing row
SubmitMilestone(sid, body) ==
    /\ last = None
    /\ IF ~RequireLogin(session[sid])
       THEN /\ AnswerOn(sid, "submit_milestone", body, Resp(302, "/login"))
            /\ UNCHANGED Milestones
       ELSE IF session[sid] = << >>
       THEN /\ AnswerOn(sid, "submit_milestone", body, Resp(500, "Error creating milestone"))
            /\ UNCHANGED Milestones
       ELSE LET row == [Participant_ID |-> MilestoneOwner(session[sid][1], body),
                        MilestoneTitle |-> body.MilestoneTitle]
            IN  IF row.Participant_ID = 0 \/ row \in Milestones
                THEN /\ AnswerOn(sid, "submit_milestone", body,
                                 Resp(500, "Error creating milestone"))
                     /\ UNCHANGED Milestones
                ELSE /\ Milestones' = Milestones \cup {row}
                     /\ AnswerOn(sid, "submit_milestone", body, Resp(302, "/milestones"))
    /\ UNCHANGED <<EventOccurrence, Registration, now, inflight, started,
                   session, authed, user>>

\* ---- the draft's occurrence administration (src/unnamed/part_000) ----
\* the body of /events/add; of /events/edit with OriginalDateTimeStart beside it.
\* A start of 0 is an absent or unparsable date
OccurrenceBodies == [Event_ID : EventIds, EventDateTimeStart : Starts \cup {0},
                     EventCapacity : 1..MaxCapacity,
                     EventRegistrationDeadline : Deadlines]

\* new Date(x).toISOString(): the same instant in canonical form; << >> stands for
\* the RangeError thrown on an invalid date
ToISOString(start) == IF start \in Starts THEN <<start>> ELSE << >>

\* variant: the unguarded handler is registered before the guarded one
EventsEditStackUnguardedFirst == <<"unguarded", "requireLogin", "guarded">>

\* the layers matching POST /events/edit in the order they are registered
EventsEditStack == <<"requireLogin", "guarded", "unguarded">>

\* a layer hands over to the next one only by calling next(): requireLogin does so for
\* a logged-in session, the handlers always end the response
CallsNext(layer, su) == layer = "requireLogin" /\ RequireLogin(su)

RECURSIVE Dispatch(_, _)
\* the layer that answers the request
Dispatch(stack, su) ==
    IF Len(stack) = 1 \/ ~CallsNext(Head(stack), su) THEN Head(stack)
    ELSE Dispatch(Tail(stack), su)

\* the response of a draft route, with the layer that sent it
AnswerBy(sid, route, body, resp, layer) ==
    last' = [route |-> route, body |-> body, action |-> "none", resp |-> resp,
             at |-> << >>, pre |-> Store, sid |-> sid, preAuth |-> AuthState,
             layer |-> layer]

\* req.session.user.role !== 'admin'
NotAdmin(su) == su[1].role # "admin"

\* POST /events/add: the insert names no EventNumRegistered, the column starts at 0
EventsAdd(sid, body) ==
    /\ last = None
    /\ LET key == <<body.Event_ID, body.EventDateTimeStart>> IN
       IF ~RequireLogin(session[sid])
       THEN /\ AnswerBy(sid, "events_add", body, Resp(302, "/login"), "requireLogin")
            /\ UNCHANGED EventOccurrence
       ELSE IF NotAdmin(session[sid])
       THEN /\ AnswerBy(sid, "events_add", body, Resp(302, "/events_nonverified"), "guarded")
            /\ UNCHANGED EventOccurrence
       ELSE IF body.EventDateTimeStart = 0 \/ key \in DOMAIN EventOccurrence
       THEN /\ AnswerBy(sid, "events_add", body,
                        Resp(500, "Server error creating event occurrence"), "guarded")
            /\ UNCHANGED EventOccurrence
       ELSE /\ EventOccurrence' =
                  [k \in DOMAIN EventOccurrence \cup {key} |->
                      IF k = key
                      THEN [EventCapacity |-> body.EventCapacity,
                            EventRegistrationDeadline |-> body.EventRegistrationDeadline,
                            EventNumRegistered |-> 0]
                      ELSE EventOccurrence[k]]
            /\ AnswerBy(sid, "events_add", body, Resp(302, "/events"), "guarded")
    /\ UNCHANGED <<Registration, now, inflight, started>>
    /\ UNCHANGED authVars

EditBodies == [Event_ID : EventIds, OriginalDateTimeStart : Starts \cup {0},
               EventDateTimeStart : Starts \cup {0}, EventCapacity : 1..MaxCapacity,
               EventRegistrationDeadline : Deadlines]

\* knex("EventOccurrence").where(orig).update({EventDateTimeStart, EventCapacity,
\* EventRegistrationDeadline, ...}): the row moves to its new key, the count is kept
EditOccurrence(occ, orig, new, body) ==
    [k \in (DOMAIN occ \ {orig}) \cup {new} |->
        IF k = new
        THEN [occ[orig] EXCEPT !.EventCapacity = body.EventCapacity,
                               !.EventRegistrationDeadline = body.EventRegistrationDeadline]
        ELSE occ[k]]

\* POST /events/edit: the request goes to the layer Dispatch finds. The guarded handler
\* is the admin check and the update; the unguarded one writes the table Events, which
\* is outside the model, and answers with its redirect or its 500
EventsEdit(sid, body) ==
    /\ last = None
    /\ LET layer == Dispatch(EventsEditStack, session[sid])
           newStart == ToISOString(body.EventDateTimeStart)
           orig == <<body.Event_ID, body.OriginalDateTimeStart>>
       IN
       IF layer = "requireLogin"
       THEN /\ AnswerBy(sid, "events_edit", body, Resp(302, "/login"), layer)
            /\ UNCHANGED EventOccurrence
       ELSE IF layer = "unguarded"
       THEN /\ \E resp \in {Resp(302, "/manage_dashboard"),
                            Resp(500, "Server Error updating event")} :
                  AnswerBy(sid, "events_edit", body, resp, layer)
            /\ UNCHANGED EventOccurrence
       ELSE IF NotAdmin(session[sid])
       THEN /\ AnswerBy(sid, "events_edit", body, Resp(302, "/events_nonverified"), layer)
            /\ UNCHANGED EventOccurrence
       ELSE IF newStart = << >>
       THEN /\ AnswerBy(sid, "events_edit", body, Resp(500, "Server error editing event"), layer)
            /\ UNCHANGED EventOccurrence
       ELSE IF orig \notin DOMAIN EventOccurrence
       THEN /\ AnswerBy(sid, "events_edit", body, Resp(302, "/events"), layer)
            /\ UNCHANGED EventOccurrence
       ELSE IF /\ <<body.Event_ID, newStart[1]>> # orig
               /\ <<body.Event_ID, newStart[1]>> \in DOMAIN EventOccurrence
       THEN /\ AnswerBy(sid, "events_edit", body, Resp(500, "Server error editing event"), layer)
            /\ UNCHANGED EventOccurrence
       ELSE /\ EventOccurrence' = EditOccurrence(EventOccurrence, orig,
                                                 <<body.Event_ID, newStart[1]>>, body)
            /\ AnswerBy(sid, "events_edit", body, Resp(302, "/events"), layer)
    /\ UNCHANGED <<Registration, now, inflight, started>>
    /\ UNCHANGED authVars

\* POST /events/delete/:eventId/:startTime: redirects to /events whether or not a row
\* was deleted
EventsDelete(sid, eventId, startTime) ==
    /\ last = None
    /\ LET body == [Event_ID |-> eventId, EventDateTimeStart |-> startTime]
           startISO == ToISOString(startTime)
       IN
       IF ~RequireLogin(session[sid])
       THEN /\ AnswerBy(sid, "events_delete", body, Resp(302, "/login"), "requireLogin")
            /\ UNCHANGED EventOccurrence
       ELSE IF NotAdmin(session[sid])
       THEN /\ AnswerBy(sid, "events_delete", body, Resp(302, "/events_nonverified"), "guarded")
            /\ UNCHANGED EventOccurrence
       ELSE IF startISO = << >>
       THEN /\ AnswerBy(sid, "events_delete", body, Resp(500, "Internal server error"), "guarded")
            /\ UNCHANGED EventOccurrence
       ELSE /\ EventOccurrence' = DeleteRow(EventOccurrence, <<eventId, startISO[1]>>)
            /\ AnswerBy(sid, "events_delete", body, Resp(302, "/events"), "guarded")
    /\ UNCHANGED <<Registration, now, inflight, started>>
    /\ UNCHANGED authVars

\* ---- the draft's registration pages (src/unnamed/part_000) ----
\* the response a draft registration page sends first, with every send the handler
\* attempts: a send after the first throws ERR_HTTP_HEADERS_SENT
AnswerSends(sid, route, key, sends) ==
    last' = [route |-> route,
             body |-> [Participant_ID |-> key[1], Event_ID |-> key[2],
                       EventDateTimeStart |-> key[3]],
             action |-> "none", resp |-> sends[1], at |-> << >>, pre |-> Store,
             sid |-> sid, preAuth |-> AuthState, sends |-> sends]

\* GET /registration/:participantId/:eventId/:startTime/edit: `user = req.session.user`
\* has no declaration, it assigns the global that every later request sees
RegistrationEditPage(sid, key) ==
    /\ last = None
    /\ user' = <<session[sid]>>
    /\ AnswerSends(sid, "registration_edit", key,
                   IF key \in DOMAIN Registration
                   THEN <<Resp(200, "edit_registration")>>
                   ELSE <<Resp(404, "Registration not found.")>>)
    /\ UNCHANGED <<EventOccurrence, Registration, now, inflight, started,
                   session, authed, Milestones>>

\* what follows res.status(200).json(...) in the draft's delete handler: reading
\* user.role throws when the global was never assigned or holds undefined, else one of
\* the two redirects is attempted and throws; the catch then attempts the 500
SendsAfterDelete(key) ==
    IF user = << >> \/ user[1] = << >>
    THEN <<Resp(200, "Registration deleted successfully."),
           Resp(500, "Internal server error.")>>
    ELSE <<Resp(200, "Registration deleted successfully."),
           IF user[1][1].role = "admin" THEN Resp(302, "/registrations_content")
           ELSE Resp(302, "/profile"),
           Resp(500, "Internal server error.")>>

\* POST /registration/:participantId/:eventId/:startTime/delete
DraftDeleteRegistration(sid, key) ==
    /\ last = None
    /\ Registration' = DeleteRow(Registration, key)
    /\ AnswerSends(sid, "draft_delete_registration", key,
                   IF key \in DOMAIN Registration THEN SendsAfterDelete(key)
                   ELSE <<Resp(404, "Registration not found.")>>)
    /\ UNCHANGED <<EventOccurrence, now, inflight, started>>
    /\ UNCHANGED authVars

\* ---- the catch blocks ----
\* the awaited store operation rejects instead of taking effect: the handler's catch
\* logs and answers 500; what earlier round trips of the request wrote stays written
StoreFailure(r) ==
    /\ last = None
    /\ inflight[r].pc # "idle"
    /\ Answer(r, IF inflight[r].route = "register"
                 THEN RegisterErrorResp ELSE UpdateErrorResp)
    /\ UNCHANGED <<EventOccurrence, Registration, now, started>>
    /\ UNCHANGED authVars

\* the response leaves the server; nothing else happens in between
Flush ==
    /\ last # None
    /\ last' = None
    /\ UNCHANGED <<EventOccurrence, Registration, now, inflight, started>>
    /\ UNCHANGED authVars

\* ---- the clock ----
Tick ==
    /\ last = None
    /\ now < MaxNow
    /\ now' = now + 1
    /\ UNCHANGED <<EventOccurrence, Registration, inflight, last, started>>
    /\ UNCHANGED authVars

\* ---- specifications ----
OccurrenceRows == [EventCapacity : 1..MaxCapacity,
                   EventRegistrationDeadline : Deadlines,
                   EventNumRegistered : {0}]

\* a scheduled set of occurrences, nobody registered yet
Init ==
    /\ \E ks \in SUBSET OccKeys : EventOccurrence \in [ks -> OccurrenceRows]
    /\ Registration = << >>
    /\ now = 1
    /\ inflight = [r \in Slots |-> Idle]
    /\ last = None
    /\ started = 0
    /\ session = [s \in Sessions |-> << >>]
    /\ authed = {}
    /\ Milestones = {}
    /\ user = << >>

Step(r) ==
    \/ RegisterEvent(r)
    \/ RegisterInsert(r)
    \/ RegisterIncrement(r)
    \/ UpdateExisting(r)
    \/ UpdateStatus(r)
    \/ UpdateEvent(r)
    \/ UpdateCount(r)

\* any request at all
Receive(r) ==
    \/ \E body \in Bodies : RegisterReceive(r, body)
    \/ \E body \in Bodies, action \in Actions : UpdateReceive(r, body, action)

\* the requests that pass the local validation and reach the store
ReceiveValid(r) ==
    \/ \E body \in CompleteBodies : RegisterReceive(r, body)
    \/ \E body \in CompleteBodies, action \in ValidActions : UpdateReceive(r, body, action)

\* requests overlap: their round trips interleave in any order
Next ==
    \/ started < MaxOverlapping /\ \E r \in Slots : ReceiveValid(r)
    \/ \E r \in Slots : Step(r)
    \/ Flush
    \/ Tick

Spec == Init /\ [][Next]_vars

\* requests run one after another: a request is received only when none is in flight
NextSeq ==
    \/ Quiescent /\ started < MaxRequests /\ \E r \in Slots : Receive(r)
    \/ \E r \in Slots : Step(r)
    \/ Flush
    \/ Tick

SpecSeq == Init /\ [][NextSeq]_vars

\* requests one after another, over a store whose operations may fail
NextFail ==
    \/ NextSeq
    \/ \E r \in Slots : StoreFailure(r)

SpecFail == Init /\ [][NextFail]_vars

\* ---- registrations and cancellations racing on a filled store ----
\* the store after registrations that ran one after another to completion: each row
\* inserted as ('tbd', 'F') before the occurrence's deadline, one increment per row
InitRegistered ==
    /\ \E ks \in SUBSET OccKeys, rs \in SUBSET RegKeys :
          /\ \A k \in rs : <<k[2], k[3]>> \in ks
          /\ Registration = [k \in rs |-> [RegistrationStatus |-> "tbd",
                                            RegistrationAttendedFlag |-> "F"]]
          /\ EventOccurrence \in
                {occ \in [ks -> [EventCapacity : 1..MaxCapacity,
                                 EventRegistrationDeadline : Deadlines,
                                 EventNumRegistered : 0..NumParticipants]] :
                    \A k \in ks :
                        /\ occ[k].EventNumRegistered =
                              Cardinality({p \in Participants : <<p, k[1], k[2]>> \in rs})
                        /\ occ[k].EventNumRegistered <= occ[k].EventCapacity
                        /\ occ[k].EventNumRegistered > 0
                              => occ[k].EventRegistrationDeadline # << >>}
    /\ now = 1
    /\ inflight = [r \in Slots |-> Idle]
    /\ last = None
    /\ started = 0
    /\ session = [s \in Sessions |-> << >>]
    /\ authed = {}
    /\ Milestones = {}
    /\ user = << >>

\* the steps of /registration/update after its receipt
UpdateStep(r) ==
    \/ UpdateExisting(r)
    \/ UpdateStatus(r)
    \/ UpdateEvent(r)
    \/ UpdateCount(r)

\* cancellations only, overlapping, the same registration more than once included
NextCancel ==
    \/ /\ started < MaxOverlapping
       /\ \E r \in Slots, body \in CompleteBodies : UpdateReceive(r, body, "cancel")
    \/ \E r \in Slots : UpdateStep(r)
    \/ Flush

SpecCancel == InitRegistered /\ [][NextCancel]_vars

\* no request in flight names the registration
NotInFlight(key) ==
    \A q \in Slots : inflight[q].pc = "idle" \/ RegKey(inflight[q].body) # key

\* registrations of participants without a row and cancellations of tbd rows,
\* overlapping, never two requests for the same participant and occurrence at a time
NextDistinct ==
    \/ /\ started < MaxOverlapping
       /\ \E r \in Slots, body \in CompleteBodies :
             /\ NotInFlight(RegKey(body))
             /\ \/ /\ RegKey(body) \notin DOMAIN Registration
                   /\ RegisterReceive(r, body)
                \/ /\ RegKey(body) \in DOMAIN Registration
                   /\ Registration[RegKey(body)].RegistrationStatus = "tbd"
                   /\ UpdateReceive(r, body, "cancel")
    \/ \E r \in Slots : Step(r)
    \/ Flush

SpecDistinct == InitRegistered /\ [][NextDistinct]_vars

\* registrations, updates and the administrative deletes, one request after another
NextAdmin ==
    \/ /\ Quiescent
       /\ started < MaxRequests
       /\ \/ \E r \in Slots : ReceiveValid(r)
          \/ \E key \in OccKeys : DeleteOccurrence(key)
          \/ \E key \in RegKeys : DeleteRegistration(key)
    \/ \E r \in Slots : Step(r)
    \/ Flush
    \/ Tick

SpecAdmin == Init /\ [][NextAdmin]_vars

\* logins, logouts and a guarded route, on several sessions
NextAuth ==
    \/ \E sid \in Sessions, email \in Credentials, password \in Credentials :
          Login(sid, email, password)
    \/ \E sid \in Sessions : Logout(sid)
    \/ \E sid \in Sessions, body \in MilestoneBodies : SubmitMilestone(sid, body)
    \/ Flush

\* nobody logged in, no milestone yet; the registration tables play no part
InitAuth ==
    /\ EventOccurrence = << >>
    /\ Registration = << >>
    /\ now = 1
    /\ inflight = [r \in Slots |-> Idle]
    /\ last = None
    /\ started = 0
    /\ session = [s \in Sessions |-> << >>]
    /\ authed = {}
    /\ Milestones = {}
    /\ user = << >>

SpecAuth == InitAuth /\ [][NextAuth]_vars

\* the draft: sessions and the administration of occurrences that have registrations
NextDraft ==
    \/ \E sid \in Sessions, email \in Credentials, password \in Credentials :
          Login(sid, email, password)
    \/ \E sid \in Sessions : Logout(sid)
    \/ \E sid \in Sessions, body \in OccurrenceBodies : EventsAdd(sid, body)
    \/ \E sid \in Sessions, body \in EditBodies : EventsEdit(sid, body)
    \/ \E sid \in Sessions, eventId \in EventIds, startTime \in Starts \cup {0} :
          EventsDelete(sid, eventId, startTime)
    \/ Flush

SpecDraft == InitRegistered /\ [][NextDraft]_vars

\* the draft: sessions, the registration edit page and the registration delete
NextDraftReg ==
    \/ \E sid \in Sessions, email \in Credentials, password \in Credentials :
          Login(sid, email, password)
    \/ \E sid \in Sessions : Logout(sid)
    \/ \E sid \in Sessions, key \in RegKeys : RegistrationEditPage(sid, key)
    \/ \E sid \in Sessions, key \in RegKeys : DraftDeleteRegistration(sid, key)
    \/ Flush

SpecDraftReg == InitRegistered /\ [][NextDraftReg]_vars

\* ---- vocabulary of the properties ----
\* the participants holding a registration for occurrence k that is not cancelled
ActiveParticipants(regs, k) ==
    {p \in Participants :
        /\ <<p, k[1], k[2]>> \in DOMAIN regs
        /\ regs[<<p, k[1], k[2]>>].RegistrationStatus \in {"tbd", "attended", "no-show"}}

AllPresent(body) ==
    /\ body.Participant_ID \in Participants
    /\ body.Event_ID \in EventIds
    /\ body.EventDateTimeStart \in Starts

\* the answered request is a /register with all fields, for an occurrence that existed
RegisterAnswered == last.route = "register"
UpdateAnswered == last.route = "update"
LastOcc == <<last.body.Event_ID, last.body.EventDateTimeStart>>
LastReg == <<last.body.Participant_ID, last.body.Event_ID, last.body.EventDateTimeStart>>
RegisterForExisting ==
    /\ RegisterAnswered
    /\ AllPresent(last.body)
    /\ LastOcc \in DOMAIN last.pre.occ
UpdateForExisting ==
    /\ UpdateAnswered
    /\ AllPresent(last.body)
    /\ last.action \in {"attended", "absent", "cancel"}
    /\ LastReg \in DOMAIN last.pre.regs
StoreUntouched ==
    /\ Registration = last.pre.regs
    /\ EventOccurrence = last.pre.occ

\* C1: once every request has completed, each occurrence's EventNumRegistered equals
\* the number of its registrations whose status is tbd, attended or no-show.
C1_CountMatchesActive ==
    Quiescent =>
        \A k \in DOMAIN EventOccurrence :
            EventOccurrence[k].EventNumRegistered
                = Cardinality(ActiveParticipants(Registration, k))

\* C2: under overlapping requests EventNumRegistered never exceeds EventCapacity.
C2_NeverOverCapacity ==
    \A k \in DOMAIN EventOccurrence :
        EventOccurrence[k].EventNumRegistered <= EventOccurrence[k].EventCapacity

\* C3: run one after another, a /register that meets an occurrence with a deadline
\* not yet passed and EventNumRegistered >= EventCapacity is answered 400 'Event is
\* full', inserts no row and leaves every count as it was.
C3_FullIsRejected ==
    ( /\ RegisterForExisting
      /\ last.pre.occ[LastOcc].EventRegistrationDeadline # << >>
      /\ last.at[1] <= last.pre.occ[LastOcc].EventRegistrationDeadline[1]
      /\ last.pre.occ[LastOcc].EventNumRegistered >= last.pre.occ[LastOcc].EventCapacity )
    => /\ last.resp = [status |-> 400, text |-> "Event is full"]
       /\ StoreUntouched

\* the scenario of capacity 2: two registrations are in, the third request is refused
C3_Witness ==
    /\ RegisterForExisting
    /\ last.resp.text = "Event is full"
    /\ last.pre.occ[LastOcc].EventCapacity = 2
    /\ last.pre.occ[LastOcc].EventNumRegistered = 2
    /\ Cardinality(ActiveParticipants(Registration, LastOcc)) = 2

\* what a successful /register leaves behind: one new row, status tbd and flag F, the
\* occurrence's count one higher, everything else as it was
RegisteredEffect ==
    /\ last.resp = [status |-> 200, text |-> "Registration successful"]
    /\ LastReg \notin DOMAIN last.pre.regs
    /\ DOMAIN Registration = DOMAIN last.pre.regs \cup {LastReg}
    /\ Registration[LastReg] = [RegistrationStatus |-> "tbd", RegistrationAttendedFlag |-> "F"]
    /\ \A k \in DOMAIN last.pre.regs : Registration[k] = last.pre.regs[k]
    /\ DOMAIN EventOccurrence = DOMAIN last.pre.occ
    /\ EventOccurrence[LastOcc] =
          [last.pre.occ[LastOcc] EXCEPT !.EventNumRegistered = @ + 1]
    /\ \A k \in DOMAIN last.pre.occ \ {LastOcc} : EventOccurrence[k] = last.pre.occ[k]

PassedValidations ==
    /\ RegisterForExisting
    /\ last.resp.text \notin {"Missing required fields", "Event occurrence not found",
                              "Registration deadline has passed", "Event is full"}

\* C4 as stated: every /register that passes the four validations succeeds with
\* exactly that effect.
C4_Original == PassedValidations => RegisteredEffect

\* C4: a /register that passes the four validations, for a participant who has no
\* row for that occurrence yet, inserts exactly one row (tbd, F), raises that
\* occurrence's count by exactly 1, changes nothing else and answers 200.
C4_RegisterEffect ==
    (PassedValidations /\ LastReg \notin DOMAIN last.pre.regs) => RegisteredEffect

\* a success beside another occurrence and another participant's registration
C4_Witness ==
    /\ RegisterAnswered
    /\ last.resp.status = 200
    /\ Cardinality(DOMAIN EventOccurrence) = 2
    /\ last.pre.regs # << >>

\* C5: /register reports the first failing check in the order missing fields,
\* occurrence not found, deadline, capacity; a deadline in the past is reported
\* whether or not the occurrence is full, and a request checked at a time <= the
\* deadline is never rejected for the deadline.
C5_CheckOrder ==
    RegisterAnswered =>
        /\ ~AllPresent(last.body) => last.resp.text = "Missing required fields"
        /\ (AllPresent(last.body) /\ LastOcc \notin DOMAIN last.pre.occ)
              => last.resp.text = "Event occurrence not found"
        /\ (RegisterForExisting /\ last.pre.occ[LastOcc].EventRegistrationDeadline # << >>)
              => LET row == last.pre.occ[LastOcc]
                     deadline == row.EventRegistrationDeadline[1]
                 IN  IF last.at[1] > deadline
                     THEN last.resp.text = "Registration deadline has passed"
                     ELSE /\ last.resp.text # "Registration deadline has passed"
                          /\ row.EventNumRegistered >= row.EventCapacity
                                => last.resp.text = "Event is full"
                          /\ last.resp.text = "Event is full"
                                => row.EventNumRegistered >= row.EventCapacity

\* a full occurrence whose deadline has passed: the deadline is what is reported
C5_Witness ==
    /\ RegisterForExisting
    /\ last.resp.text = "Registration deadline has passed"
    /\ last.pre.occ[LastOcc].EventRegistrationDeadline # << >>
    /\ last.pre.occ[LastOcc].EventNumRegistered >= last.pre.occ[LastOcc].EventCapacity

\* C6: an occurrence whose EventRegistrationDeadline is null has no deadline: the
\* deadline check never rejects a request for it.
C6_NullDeadlineNeverExpires ==
    (RegisterForExisting /\ last.pre.occ[LastOcc].EventRegistrationDeadline = << >>)
        => last.resp.text # "Registration deadline has passed"

\* C7: /register for a pair that has no EventOccurrence row answers 404 'Event
\* occurrence not found', creates no row and changes no count.
C7_UnknownOccurrence ==
    (RegisterAnswered /\ AllPresent(last.body) /\ LastOcc \notin DOMAIN last.pre.occ)
        => /\ last.resp = [status |-> 404, text |-> "Event occurrence not found"]
           /\ StoreUntouched

C7_Witness ==
    /\ RegisterAnswered
    /\ last.resp.status = 404
    /\ EventOccurrence # << >>
    /\ Registration # << >>

\* C8: with no other request overlapping, cancelling a registration that is not
\* cancelled sets it to cancelled and lowers the occurrence's count by exactly 1, or
\* leaves it at 0; cancelling it again succeeds, leaves it cancelled and changes no count.
C8_CancelOnce ==
    (UpdateForExisting /\ last.action = "cancel") =>
        /\ last.resp.status = 302
        /\ Registration[LastReg].RegistrationStatus = "cancelled"
        /\ DOMAIN EventOccurrence = DOMAIN last.pre.occ
        /\ \A k \in DOMAIN EventOccurrence \ {LastOcc} : EventOccurrence[k] = last.pre.occ[k]
        /\ LastOcc \in DOMAIN last.pre.occ
        /\ LET before == last.pre.occ[LastOcc].EventNumRegistered
               after == EventOccurrence[LastOcc].EventNumRegistered
           IN  IF last.pre.regs[LastReg].RegistrationStatus = "cancelled" THEN after = before
               ELSE IF before = 0 THEN after = 0
               ELSE after = before - 1

\* the second cancel, met with a count that is still positive
C8_Witness ==
    /\ UpdateForExisting
    /\ last.action = "cancel"
    /\ last.pre.regs[LastReg].RegistrationStatus = "cancelled"
    /\ last.pre.occ[LastOcc].EventNumRegistered > 0

\* C9: /registration/update with all three identifiers and an action other than
\* attended, absent, cancel answers 400 'Invalid action' without any round trip to the
\* store: no row of either table changes.
C9_InvalidAction ==
    ( /\ UpdateAnswered
      /\ AllPresent(last.body)
      /\ last.action \notin {"attended", "absent", "cancel"} )
    => /\ last.resp = [status |-> 400, text |-> "Invalid action"]
       /\ StoreUntouched
       /\ Quiescent

C9_Witness ==
    /\ UpdateAnswered
    /\ last.resp.text = "Invalid action"
    /\ LastReg \in DOMAIN Registration

\* C10: /registration/update with a valid action for a triple that has no
\* Registration row answers 404 and changes nothing.
C10_UnknownRegistration ==
    ( /\ UpdateAnswered
      /\ AllPresent(last.body)
      /\ last.action \in {"attended", "absent", "cancel"}
      /\ LastReg \notin DOMAIN last.pre.regs )
    => /\ last.resp.status = 404
       /\ StoreUntouched

\* C11: a /register for a participant who already has a row for the occurrence fails
\* with an error of its own, not the generic store error, and leaves the single row and
\* every count as they were.
C11_DuplicateIsNamed ==
    (RegisterForExisting /\ LastReg \in DOMAIN last.pre.regs)
        => /\ last.resp.status # 200
           /\ last.resp # [status |-> 500, text |-> "Server error"]
           /\ StoreUntouched

\* the status each action asks for
StatusOf(action) ==
    IF action = "attended" THEN "attended"
    ELSE IF action = "absent" THEN "no-show"
    ELSE "cancelled"

\* C12: for an existing registration in any status, /registration/update succeeds and
\* the new status is decided by the action alone: attended, no-show (action absent)
\* or cancelled (action cancel).
C12_StatusByAction ==
    UpdateForExisting
        => /\ last.resp = [status |-> 302, text |-> "back"]
           /\ Registration[LastReg].RegistrationStatus = StatusOf(last.action)

\* a cancelled registration marked as a no-show
C12_Witness ==
    /\ UpdateForExisting
    /\ last.action = "absent"
    /\ last.pre.regs[LastReg].RegistrationStatus = "cancelled"
    /\ Registration[LastReg].RegistrationStatus = "no-show"

\* C13: a successful /registration/update changes the addressed Registration row only;
\* it changes the addressed occurrence's EventNumRegistered, and nothing else of any
\* EventOccurrence row, only when the action is cancel and the status before was not
\* cancelled.
C13_UpdateFrame ==
    (UpdateForExisting /\ last.resp.status = 302)
        => /\ DOMAIN Registration = DOMAIN last.pre.regs
           /\ \A k \in DOMAIN Registration \ {LastReg} : Registration[k] = last.pre.regs[k]
           /\ DOMAIN EventOccurrence = DOMAIN last.pre.occ
           /\ \A k \in DOMAIN EventOccurrence \ {LastOcc} :
                 EventOccurrence[k] = last.pre.occ[k]
           /\ \A k \in DOMAIN EventOccurrence \cap {LastOcc} :
                 /\ EventOccurrence[k].EventCapacity = last.pre.occ[k].EventCapacity
                 /\ EventOccurrence[k].EventRegistrationDeadline
                       = last.pre.occ[k].EventRegistrationDeadline
           /\ ( \/ last.action # "cancel"
                \/ last.pre.regs[LastReg].RegistrationStatus = "cancelled" )
              => EventOccurrence = last.pre.occ

\* an update that leaves the counts alone, beside a second row and a second occurrence
C13_Witness ==
    /\ UpdateForExisting
    /\ last.resp.status = 302
    /\ last.action = "attended"
    /\ Cardinality(DOMAIN Registration) >= 2
    /\ Cardinality(DOMAIN EventOccurrence) = 2

\* C17: /register and /registration/update answer 400 'Missing required fields' whenever
\* one of the three identifiers is absent or empty, before any store access: no round
\* trip is started and no row changes; on /registration/update the action is looked at
\* only after this check.
C17_MissingFieldsFirst ==
    (last.route \in {"register", "update"} /\ ~AllPresent(last.body))
        => /\ last.resp = [status |-> 400, text |-> "Missing required fields"]
           /\ Quiescent
           /\ StoreUntouched

\* an update with a missing identifier and an unknown action is reported as missing fields
C17_Witness ==
    /\ UpdateAnswered
    /\ last.body.Participant_ID = 0
    /\ last.action = "bogus"
    /\ last.resp = [status |-> 400, text |-> "Missing required fields"]
    /\ DOMAIN Registration # {}

\* C18: attended, no-show and cancelled are terminal: a /registration/update on a
\* registration in one of them leaves its status as it was; a row is created as tbd.
C18_TerminalStatuses ==
    /\ (UpdateForExisting
          /\ last.pre.regs[LastReg].RegistrationStatus \in {"attended", "no-show", "cancelled"})
        => Registration[LastReg].RegistrationStatus = last.pre.regs[LastReg].RegistrationStatus
    /\ (RegisterForExisting /\ last.resp.status = 200)
        => Registration[LastReg].RegistrationStatus = "tbd"

\* C19: in every state reached through /register and /registration/update, requests
\* overlapping or not, a Registration row carries the flag 'T' exactly when its status
\* is attended, and 'F' when it is tbd, no-show or cancelled.
C19_FlagFollowsStatus ==
    \A k \in DOMAIN Registration :
        /\ Registration[k].RegistrationAttendedFlag \in {"T", "F"}
        /\ Registration[k].RegistrationAttendedFlag = "T"
              <=> Registration[k].RegistrationStatus = "attended"

\* a row marked attended, then marked absent: the flag came back to 'F'
C19_Witness ==
    /\ UpdateForExisting
    /\ last.action = "absent"
    /\ last.pre.regs[LastReg] = [RegistrationStatus |-> "attended",
                                 RegistrationAttendedFlag |-> "T"]
    /\ Registration[LastReg] = [RegistrationStatus |-> "no-show",
                                RegistrationAttendedFlag |-> "F"]

\* C20: under any interleaving of register and cancel requests EventNumRegistered is an
\* integer that never goes below 0, also when a cancel decrements a count that is 0.
C20_CountNeverNegative ==
    \A k \in DOMAIN EventOccurrence :
        /\ EventOccurrence[k].EventNumRegistered \in Int
        /\ EventOccurrence[k].EventNumRegistered >= 0

\* a cancel of a registration whose increment had not been written yet: it found the
\* count at 0 and left it at 0
C20_Witness ==
    /\ UpdateForExisting
    /\ last.action = "cancel"
    /\ last.resp.status = 302
    /\ last.pre.regs[LastReg].RegistrationStatus = "tbd"
    /\ last.pre.occ[LastOcc].EventNumRegistered = 0
    /\ EventOccurrence[LastOcc].EventNumRegistered = 0
    /\ \E r \in Slots : inflight[r].pc = "reg_increment"

\* C14: when a store operation fails at any step of /register or /registration/update,
\* the request is answered 500 and the store is as it was before the request: no row
\* inserted without its increment, no status changed without its decrement.
C14_NoPartialMutation ==
    (last.route \in {"register", "update"} /\ last.resp.status = 500)
        => StoreUntouched

\* C15: when cancellations of the same registration overlap, their round trips in any
\* order, the occurrence's count goes down at most once for that registration: starting
\* from one unit per row, it never falls below the number of rows not cancelled.
C15_CancelRaceDecrementsOnce ==
    \A k \in DOMAIN EventOccurrence :
        EventOccurrence[k].EventNumRegistered
            >= Cardinality(ActiveParticipants(Registration, k))

\* C16: a /register and a cancel for different participants of one occurrence, or two
\* cancels of different registrations of it, overlapping in any order: once all have
\* completed the count equals the number of rows not cancelled.
C16_DistinctRaceKeepsCount ==
    Quiescent
        => \A k \in DOMAIN EventOccurrence :
              EventOccurrence[k].EventNumRegistered
                  = Cardinality(ActiveParticipants(Registration, k))

\* C21: an EventOccurrence row is never deleted while Registration rows reference it:
\* after a delete-occurrence request every remaining Registration row still has its
\* EventOccurrence row.
C21_NoOrphanedRegistration ==
    last.route = "delete_occurrence"
        => \A k \in DOMAIN Registration : <<k[2], k[3]>> \in DOMAIN EventOccurrence

\* C23: the hard-delete of a Registration row that was not cancelled keeps the count
\* right: where EventNumRegistered matched the non-cancelled rows before the delete,
\* it matches the remaining ones after it.
C23_DeleteKeepsCount ==
    ( /\ last.route = "delete_registration"
      /\ last.resp.status = 200
      /\ last.pre.regs[LastReg].RegistrationStatus # "cancelled"
      /\ LastOcc \in DOMAIN last.pre.occ
      /\ last.pre.occ[LastOcc].EventNumRegistered
            = Cardinality(ActiveParticipants(last.pre.regs, LastOcc)) )
        => EventOccurrence[LastOcc].EventNumRegistered
              = Cardinality(ActiveParticipants(Registration, LastOcc))

\* C24: a cancel of an existing registration that is not cancelled, whose
\* EventOccurrence row does not exist, is answered 404 and leaves the status as it was.
C24_CancelWithoutOccurrence ==
    ( /\ UpdateForExisting
      /\ last.action = "cancel"
      /\ last.pre.regs[LastReg].RegistrationStatus # "cancelled"
      /\ LastOcc \notin DOMAIN last.pre.occ )
        => /\ last.resp.status = 404
           /\ Registration[LastReg].RegistrationStatus
                 = last.pre.regs[LastReg].RegistrationStatus

\* the answered /register left a new row for its participant
RowInserted ==
    /\ LastReg \in DOMAIN Registration
    /\ LastReg \notin DOMAIN last.pre.regs

\* C25: in /register the insert comes before the increment and the increment is issued
\* only after the insert succeeded: a request waiting for its increment has its row in
\* the table and the counts still as they were; a request whose insert failed answers
\* 500 with every count unchanged; a count is raised only together with a new row.
C25_InsertBeforeIncrement ==
    /\ \A r \in Slots :
          inflight[r].pc = "reg_increment"
              => /\ RegKey(inflight[r].body) \in DOMAIN Registration
                 /\ RegKey(inflight[r].body) \notin DOMAIN inflight[r].pre.regs
                 /\ EventOccurrence = inflight[r].pre.occ
    /\ (RegisterForExisting /\ last.at # << >> /\ last.resp.status \notin {200, 400, 404})
          => /\ last.resp = [status |-> 500, text |-> "Server error"]
             /\ (~RowInserted => EventOccurrence = last.pre.occ)
    /\ (RegisterAnswered /\ EventOccurrence # last.pre.occ)
          => /\ RowInserted
             /\ last.resp.status = 200

\* a second registration of the same participant, with room left: the insert is
\* refused, the answer is 500 and the count is the one before
C25_Witness ==
    /\ RegisterForExisting
    /\ LastReg \in DOMAIN last.pre.regs
    /\ ~IsFull(last.pre.occ[LastOcc])
    /\ last.resp = [status |-> 500, text |-> "Server error"]
    /\ EventOccurrence = last.pre.occ

\* the other sessions are as they were before the answered request
OtherSessionsKept ==
    \A t \in Sessions \ {last.sid} : session[t] = last.preAuth.session[t]

C27_LoginSetsUser ==
    last.route = "login"
        => /\ OtherSessionsKept
           /\ IF \E a \in Accounts : /\ a.ParticipantEmail = last.body.email
                                     /\ a.ParticipantPassword = last.body.password
              THEN \E a \in Accounts :
                      /\ a.ParticipantEmail = last.body.email
                      /\ session[last.sid] = <<[id |-> a.Participant_ID,
                                                email |-> a.ParticipantEmail,
                                                role |-> a.ParticipantRole]>>
              ELSE session[last.sid] = last.preAuth.session[last.sid]

\* a logged-in participant submits the admin's e-mail with a password that is not the
\* admin's: the session still holds the participant
C27_Witness ==
    /\ last.route = "login"
    /\ last.body.email = NumParticipants
    /\ last.body.password = 1
    /\ NumParticipants # 1
    /\ session[last.sid] # << >>
    /\ session[last.sid][1].role = "participant"

\* C29: when the session's user has role participant, /submit-milestone inserts the
\* milestone under the session user's id, whatever Participant_ID the body carries:
\* no row appears for another participant.
C29_MilestoneOwner ==
    ( /\ last.route = "submit_milestone"
      /\ last.preAuth.session[last.sid] # << >>
      /\ last.preAuth.session[last.sid][1].role = "participant" )
        => /\ Milestones \ last.preAuth.Milestones
                \subseteq {[Participant_ID |-> last.preAuth.session[last.sid][1].id,
                            MilestoneTitle |-> last.body.MilestoneTitle]}
           /\ last.resp.status = 302 => Milestones # last.preAuth.Milestones

\* a participant submitted a milestone naming another participant and got it as theirs
C29_Witness ==
    /\ last.route = "submit_milestone"
    /\ last.resp = [status |-> 302, text |-> "/milestones"]
    /\ session[last.sid][1].role = "participant"
    /\ last.body.Participant_ID \in Participants \ {session[last.sid][1].id}
    /\ [Participant_ID |-> session[last.sid][1].id,
        MilestoneTitle |-> last.body.MilestoneTitle] \in Milestones \ last.preAuth.Milestones

\* the occurrence an answered /events/edit addressed, and the key it was moved to
LastOrig == <<last.body.Event_ID, last.body.OriginalDateTimeStart>>

\* C22: the capacity of an occurrence is fixed once it is created: an admin edit leaves
\* EventCapacity as it was and so cannot bring it below EventNumRegistered.
C22_CapacityFixed ==
    ( /\ last.route = "events_edit"
      /\ last.resp = [status |-> 302, text |-> "/events"]
      /\ LastOrig \in DOMAIN last.pre.occ )
        => /\ LastOcc \in DOMAIN EventOccurrence
           /\ EventOccurrence[LastOcc].EventCapacity = last.pre.occ[LastOrig].EventCapacity
           /\ EventOccurrence[LastOcc].EventNumRegistered
                 <= EventOccurrence[LastOcc].EventCapacity

\* C28: in the draft /events/add, /events/edit and /events/delete create, change or
\* delete an EventOccurrence row only for a session whose user is an admin; a requester
\* not logged in is sent to /login, one with another role to /events_nonverified, both
\* without a store write; the unguarded second /events/edit handler never answers.
C28_AdminOnly ==
    last.route \in {"events_add", "events_edit", "events_delete"}
        => /\ last.layer # "unguarded"
           /\ last.preAuth.session[last.sid] = << >>
                 => /\ last.resp = [status |-> 302, text |-> "/login"]
                    /\ StoreUntouched
           /\ ( /\ last.preAuth.session[last.sid] # << >>
                /\ last.preAuth.session[last.sid][1].role # "admin" )
                 => /\ last.resp = [status |-> 302, text |-> "/events_nonverified"]
                    /\ StoreUntouched

\* a participant's /events/edit for an existing occurrence, with a new capacity, is
\* turned away while an admin is logged in on the other session
C28_Witness ==
    /\ last.route = "events_edit"
    /\ last.resp = [status |-> 302, text |-> "/events_nonverified"]
    /\ LastOrig \in DOMAIN EventOccurrence
    /\ EventOccurrence[LastOrig].EventCapacity # last.body.EventCapacity
    /\ \E t \in Sessions \ {last.sid} : session[t] # << >> /\ session[t][1].role = "admin"

\* C30: a request to a delete-registration route gets exactly one response, 200 when a
\* row was deleted and 404 when none matched; the handler attempts no second send, and
\* what it does is decided by the request and the store alone.
C30_OneResponse ==
    last.route = "draft_delete_registration"
        => /\ Len(last.sends) = 1
           /\ last.resp.status = (IF LastReg \in DOMAIN last.pre.regs THEN 200 ELSE 404)

====
